---- MODULE Spec2Model ----
(***************************************************************************)
(* Model of the Mancala server in src/index.ts: the move engine makeMove   *)
(* on the 14-slot board (slots 0..5 and 7..12 are the sowing pits, slot 6  *)
(* is player 0's store, slot 13 is player 1's store) and the handlers of   *)
(* one game: POST /create, GET /state, POST /move/:pitIndex, GET /events   *)
(* and the 10 s keep-alive tick of every event stream; a client closing    *)
(* its event stream; two move requests in flight at once.                  *)
(***************************************************************************)
EXTENDS Integers, Sequences, FiniteSets, TLC

VARIABLES board, playerSessions, listeners, streams, moves, last, race

vars == <<board, playerSessions, listeners, streams, moves, last, race>>

(***************************************************************************)
(* Bounds of the exploration.                                              *)
(***************************************************************************)
\* accepted moves explored after each opening
MaxMoves == 1
\* event streams opened on the game
MaxSubs == 2
\* requested pit indexes range over -PitMargin .. 13 + PitMargin
PitMargin == 1

PitInputs == (0 - PitMargin)..(13 + PitMargin)

(***************************************************************************)
(* Values.                                                                 *)
(***************************************************************************)
\* sessionId cookies: "a" is the one issued by POST /create
Ids == {"a", "b", "c"}
\* an unassigned entry of playerSessions
NoSession == "null"
\* winner: null
Null == 0 - 1
\* Array.prototype.indexOf: not found
NotFound == 0 - 1

Slots == 0..13
NoPits == [i \in Slots |-> 0]

RECURSIVE SumRange(_, _, _)
\* pits.slice(lo, hi + 1).reduce((a, b) => a + b, 0)
SumRange(pits, lo, hi) ==
  IF lo > hi THEN 0 ELSE pits[lo] + SumRange(pits, lo + 1, hi)

\* pits.slice(lo, hi + 1).every((seeds) => seeds === 0)
\* the row test reaching one slot too far, into the store after the row
AllZero_with_store(pits, lo, hi) == \A i \in lo..(hi + 1) : pits[i] = 0

AllZero(pits, lo, hi) == \A i \in lo..hi : pits[i] = 0

(***************************************************************************)
(* The engine.                                                             *)
(***************************************************************************)
getInitialBoard ==
  [pits |-> [i \in Slots |-> IF i = 6 \/ i = 13 THEN 0 ELSE 4],
   turn |-> 0, gameOver |-> FALSE, winner |-> Null]

\* rejection with the pit checks made before the turn check
rejection_pit_first(b, pitIndex, player) ==
  IF b.gameOver THEN "Game is over."
  ELSE IF pitIndex < 0 \/ pitIndex > 12 \/ pitIndex = 6 THEN "Invalid pit index."
  ELSE IF player # b.turn THEN "Not your turn."
  ELSE IF ~(pitIndex >= player * 7 /\ pitIndex < player * 7 + 6)
    THEN "Cannot move from opponents pit."
  ELSE IF b.pits[pitIndex] = 0 THEN "Pit is empty."
  ELSE ""

\* the checks at the head of makeMove, in source order; "" when all pass
rejection(b, pitIndex, player) ==
  IF b.gameOver THEN "Game is over."
  ELSE IF player # b.turn THEN "Not your turn."
  ELSE IF pitIndex < 0 \/ pitIndex > 12 \/ pitIndex = 6 THEN "Invalid pit index."
  ELSE IF ~(pitIndex >= player * 7 /\ pitIndex < player * 7 + 6)
    THEN "Cannot move from opponents pit."
  ELSE IF b.pits[pitIndex] = 0 THEN "Pit is empty."
  ELSE ""

\* nextPit skipping both stores
nextPit_skip_both(currentPit, player) ==
  LET c1 == (currentPit + 1) % 14
  IN IF c1 = 6 \/ c1 = 13 THEN (c1 + 1) % 14 ELSE c1

\* nextPit skipping no store
nextPit_no_skip(currentPit, player) == (currentPit + 1) % 14

\* one step of the walk: advance, skipping the opponent's store
nextPit(currentPit, player) ==
  LET c1 == (currentPit + 1) % 14
      c2 == IF player = 1 /\ c1 = 6 THEN (c1 + 1) % 14 ELSE c1
      c3 == IF player = 0 /\ c2 = 13 THEN (c2 + 1) % 14 ELSE c2
  IN c3

RECURSIVE sow(_, _, _, _)
\* the while (seeds > 0) loop
sow(pits, currentPit, seeds, player) ==
  IF seeds > 0
  THEN LET c == nextPit(currentPit, player)
       IN sow([pits EXCEPT ![c] = @ + 1], c, seeds - 1, player)
  ELSE [pits |-> pits, currentPit |-> currentPit]

\* the capture block
capture(pits, currentPit, player) ==
  LET rangeMin == player * 7
      rangeMax == rangeMin + 6
  IN IF currentPit >= rangeMin /\ currentPit < rangeMax /\ pits[currentPit] = 1
     THEN LET oppositePit == 13 - currentPit
              capturedSeeds == pits[oppositePit]
              p1 == [pits EXCEPT ![oppositePit] = 0]
              p2 == [p1 EXCEPT ![(player + 1) * 6 + player] = @ + capturedSeeds + 1]
          IN [p2 EXCEPT ![currentPit] = 0]
     ELSE pits

\* the two store additions of the game-over branch, before pits.fill(0)
sweep(pits) ==
  IF AllZero(pits, 0, 5)
  THEN [pits EXCEPT ![13] = @ + SumRange(pits, 7, 12)]
  ELSE [pits EXCEPT ![6] = @ + SumRange(pits, 0, 5)]

\* board.pits.fill(0): every one of the 14 slots
fill0(pits) == [i \in DOMAIN pits |-> 0]

\* the winner expression, evaluated on the pits it is given
winnerOf(pits) ==
  IF pits[6] > pits[13] THEN 0 ELSE IF pits[13] > pits[6] THEN 1 ELSE Null

\* nextTurn keeping the turn whenever the walk ended at or past slot 6
nextTurn_past_store(player, currentPit) ==
  IF currentPit >= 6 THEN player ELSE IF player = 0 THEN 1 ELSE 0

\* the else branch of the game-over test: who moves next
nextTurn(player, currentPit) ==
  IF ~(player = 0 /\ currentPit = 6) /\ ~(player = 1 /\ currentPit = 14)
  THEN IF player = 0 THEN 1 ELSE 0
  ELSE player

\* Rejected with the turn already passed on when the request is turned down
Rejected_turn_passed(b, reason) ==
  [error |-> reason, board |-> [b EXCEPT !.turn = 1 - @], currentPit |-> NotFound,
   sown |-> NoPits, captured |-> NoPits]

\* return { error }: the board object is handed back untouched
Rejected(b, reason) ==
  [error |-> reason, board |-> b, currentPit |-> NotFound,
   sown |-> NoPits, captured |-> NoPits]

\* the move once the checks have passed; sown and captured are the contents
\* of board.pits after the loop and after the capture block
Applied(b, pitIndex, player) ==
  LET s == sow([b.pits EXCEPT ![pitIndex] = 0], pitIndex, b.pits[pitIndex], player)
      c == capture(s.pits, s.currentPit, player)
      player0PitsEmpty == AllZero(c, 0, 5)
      player1PitsEmpty == AllZero(c, 7, 12)
      over == player0PitsEmpty \/ player1PitsEmpty
      w == IF over THEN sweep(c) ELSE c
      f == IF over THEN fill0(w) ELSE c
  IN [error |-> "",
      board |-> [pits |-> f,
                 turn |-> IF over THEN b.turn ELSE nextTurn(player, s.currentPit),
                 gameOver |-> over,
                 winner |-> IF over THEN winnerOf(f) ELSE b.winner],
      currentPit |-> s.currentPit, sown |-> s.pits, captured |-> c]

\* makeMove with the chosen pit emptied before the pit's row is checked
makeMove_early_write(b, pitIndex, player) ==
  LET reason == rejection(b, pitIndex, player)
  IN IF reason = "Cannot move from opponents pit."
     THEN Rejected([b EXCEPT !.pits[pitIndex] = 0], reason)
     ELSE IF reason # "" THEN Rejected(b, reason) ELSE Applied(b, pitIndex, player)

makeMove(b, pitIndex, player) ==
  LET reason == rejection(b, pitIndex, player)
  IN IF reason # "" THEN Rejected(b, reason) ELSE Applied(b, pitIndex, player)

(***************************************************************************)
(* The session: one entry of games.                                        *)
(***************************************************************************)
\* indexOf with an unknown session taken for the first player
indexOf_default0(sessions, sessionId) ==
  IF sessions[1] = sessionId THEN 1 ELSE 0

\* playerSessions.indexOf(sessionId)
indexOf(sessions, sessionId) ==
  IF sessions[0] = sessionId THEN 0
  ELSE IF sessions[1] = sessionId THEN 1
  ELSE NotFound

\* playerSessions.includes(sessionId)
includes(sessions, sessionId) == \E i \in 0..1 : sessions[i] = sessionId

\* assignSeats without the null test: the newcomer takes the second slot
assignSeats_overwrite(sessions, sessionId) ==
  IF ~includes(sessions, sessionId)
  THEN [sessions EXCEPT ![1] = sessionId]
  ELSE sessions

\* the slot loop of GET /events: every null slot is given the session id
assignSeats(sessions, sessionId) ==
  IF ~includes(sessions, sessionId)
  THEN [i \in 0..1 |-> IF sessions[i] = NoSession THEN sessionId ELSE sessions[i]]
  ELSE sessions

\* broadcast that stops after the first listener
broadcast_first_only(strs, ls, b) ==
  [k \in DOMAIN strs |->
     IF ls # << >> /\ ls[1] = k
     THEN [strs[k] EXCEPT !.n = @ + 1, !.data = <<b>>]
     ELSE strs[k]]

\* game.listeners.forEach((listener) => listener(game.board)): every stream
\* whose listener is registered is written one event holding the board
broadcast(strs, ls, b) ==
  [k \in DOMAIN strs |->
     IF \E j \in DOMAIN ls : ls[j] = k
     THEN [strs[k] EXCEPT !.n = @ + 1, !.data = <<b>>]
     ELSE strs[k]]

\* removeListener when indexOf does not find the listener: nothing is removed
removeListener_none(ls, k) == ls

\* listeners.splice(listeners.indexOf(listener), 1)
removeListener(ls, k) == SelectSeq(ls, LAMBDA x : x # k)

\* the request and response of the handler that ran last; for a move, the
\* locals of makeMove as well
Request(op, id, pitIndex, player, status, r) ==
  [op |-> op, id |-> id, pitIndex |-> pitIndex, player |-> player,
   status |-> status, error |-> r.error, currentPit |-> r.currentPit,
   sown |-> r.sown, captured |-> r.captured]

NoMove == Rejected(getInitialBoard, "")

\* the two move requests of a race
Racers == {1, 2}
\* a request of a race: not yet sent ("idle"), past the middleware, which has
\* put the game in the context ("pending"; seen is game.board at that time),
\* or answered ("done")
NoRequest == [st |-> "idle", id |-> "", pitIndex |-> 0, seen |-> getInitialBoard]

(***************************************************************************)
(* Initial states.  POST /create builds the game: the initial board, no    *)
(* listeners, the creator "a" in slot 0.  To bring captures, store         *)
(* landings and the end of a game within reach of a bounded exploration, a *)
(* run may also start from the game after an opening: "b" has opened an    *)
(* event stream, which took slot 1, and the player to move has requested   *)
(* the listed pits one after the other, each played through makeMove.      *)
(***************************************************************************)
\* the opening that leaves player 1 one move from the end of the game
Endgame == <<2, 5, 7, 1, 9, 0, 10, 2, 11, 0>>

Openings ==
  { << >>,
    <<2, 3>>,
    <<2, 5, 7>>,
    Endgame,
    <<2, 0, 10, 2, 12, 1, 9, 2, 11, 2, 12, 0, 7>> }

RECURSIVE Replay(_)
\* the board after the moves of an opening, and its last request
Replay(seq) ==
  IF seq = << >>
  THEN [board |-> getInitialBoard, req |-> Request("create", "a", 0, 0, 200, NoMove)]
  ELSE LET before == Replay(SubSeq(seq, 1, Len(seq) - 1)).board
           player == before.turn
           result == makeMove(before, seq[Len(seq)], player)
       IN [board |-> result.board,
           req |-> Request("move", IF player = 0 THEN "a" ELSE "b",
                           seq[Len(seq)], player, 200, result)]

InitAfter(seq) ==
  LET r == Replay(seq)
  IN /\ board = r.board
     /\ last = r.req
     /\ moves = 0
     /\ IF seq = << >>
        THEN /\ playerSessions = [i \in 0..1 |-> IF i = 0 THEN "a" ELSE NoSession]
             /\ listeners = << >>
             /\ streams = << >>
        ELSE /\ playerSessions = [i \in 0..1 |-> IF i = 0 THEN "a" ELSE "b"]
             /\ listeners = <<1>>
             /\ streams = <<[open |-> TRUE, aborted |-> FALSE, n |-> Len(seq),
                              data |-> <<r.board>>]>>
     /\ race = [base |-> r.board, reqs |-> [i \in Racers |-> NoRequest]]

Init == \E seq \in Openings : InitAfter(seq)

(***************************************************************************)
(* The handlers.                                                           *)
(***************************************************************************)
\* handleMove with the listeners called before the result is looked at
handleMove_notify_rejected(b, sessionId, pitIndex) ==
  LET player == indexOf(playerSessions, sessionId)
  IN IF player = NotFound
     THEN /\ last' = Request("move", sessionId, pitIndex, player, 401,
                             Rejected(b, "Invalid player for session."))
          /\ UNCHANGED <<board, playerSessions, listeners, streams>>
     ELSE LET result == makeMove(b, pitIndex, player)
          IN /\ board' = result.board
             /\ streams' = broadcast(streams, listeners, result.board)
             /\ last' = Request("move", sessionId, pitIndex, player,
                                IF result.error # "" THEN 400 ELSE 200, result)
             /\ UNCHANGED <<playerSessions, listeners>>

\* POST /game/:gameId/move/:pitIndex, b being game.board when the handler runs
handleMove(b, sessionId, pitIndex) ==
  LET player == indexOf(playerSessions, sessionId)
  IN IF player = NotFound
     THEN /\ last' = Request("move", sessionId, pitIndex, player, 401,
                             Rejected(b, "Invalid player for session."))
          /\ UNCHANGED <<board, playerSessions, listeners, streams>>
     ELSE LET result == makeMove(b, pitIndex, player)
          IN IF result.error # ""
             THEN /\ board' = result.board
                  /\ last' = Request("move", sessionId, pitIndex, player, 400, result)
                  /\ UNCHANGED <<playerSessions, listeners, streams>>
             ELSE /\ board' = result.board
                  /\ streams' = broadcast(streams, listeners, result.board)
                  /\ last' = Request("move", sessionId, pitIndex, player, 200, result)
                  /\ UNCHANGED <<playerSessions, listeners>>

\* a move request, from the middleware to the response
Move(sessionId, pitIndex) ==
  /\ handleMove(board, sessionId, pitIndex)
  /\ IF last'.status = 200
     THEN moves < MaxMoves /\ moves' = moves + 1
     ELSE moves' = moves
  /\ UNCHANGED race

\* GET /game/:gameId/events: seat the session if a slot is free, then open
\* the stream and register its listener
Subscribe(sessionId) ==
  /\ Len(streams) < MaxSubs
  /\ playerSessions' = assignSeats(playerSessions, sessionId)
  /\ streams' = Append(streams, [open |-> TRUE, aborted |-> FALSE, n |-> 0,
                                 data |-> << >>])
  /\ listeners' = Append(listeners, Len(streams) + 1)
  /\ last' = Request("events", sessionId, 0, indexOf(playerSessions', sessionId),
                     200, NoMove)
  /\ UNCHANGED <<board, moves, race>>

\* GET /game/:gameId/state
GetState(sessionId) ==
  /\ last' = Request("state", sessionId, 0, indexOf(playerSessions, sessionId),
                     200, NoMove)
  /\ UNCHANGED <<board, playerSessions, listeners, streams, moves, race>>

\* one round of the while (true) loop of stream k: the 10 s timer fires
Tick(k) ==
  /\ k \in DOMAIN streams
  /\ streams[k].open
  /\ IF board.gameOver
     THEN /\ listeners' = removeListener(listeners, k)
          /\ streams' = [streams EXCEPT ![k].open = FALSE]
     ELSE UNCHANGED <<listeners, streams>>
  /\ last' = Request("tick", "", k, NotFound, 200, NoMove)
  /\ UNCHANGED <<board, playerSessions, moves, race>>

Next ==
  \/ \E sessionId \in Ids, pitIndex \in PitInputs : Move(sessionId, pitIndex)
  \/ \E sessionId \in Ids : Subscribe(sessionId)
  \/ \E sessionId \in Ids : GetState(sessionId)
  \/ \E k \in 1..MaxSubs : Tick(k)

Spec == Init /\ [][Next]_vars

\* The timer of every running stream loop fires again and again.  Of the
\* openings only Endgame has the end of a game within reach, so the runs
\* that matter to what happens after it start there.
SpecLive ==
  InitAfter(Endgame) /\ [][Next]_vars /\ \A k \in 1..MaxSubs : WF_vars(Tick(k))

(***************************************************************************)
(* A client closing its event stream.  The stream callback registers no    *)
(* abort handler and its loop does not look at the connection, so nothing  *)
(* of the game changes: the listener stays in game.listeners.              *)
(***************************************************************************)
Disconnect(k) ==
  /\ k \in DOMAIN streams
  /\ ~streams[k].aborted
  /\ streams' = [streams EXCEPT ![k].aborted = TRUE]
  /\ last' = Request("abort", "", k, NotFound, 200, NoMove)
  /\ UNCHANGED <<board, playerSessions, listeners, moves, race>>

NextDisc ==
  \/ Next
  \/ \E k \in 1..MaxSubs : Disconnect(k)

SpecDisc == Init /\ [][NextDisc]_vars

(***************************************************************************)
(* Two move requests in flight.  The request path suspends once, at the    *)
(* middleware's await next(); the model lets the other request run there,  *)
(* between the middleware and the handler, and nowhere inside the handler, *)
(* which has no await.                                                     *)
(***************************************************************************)
\* the handler reading a copy of the board made by the middleware
gameBoard_copied(seen) == seen

\* game.board in the handler: game is the shared object the middleware put
\* in the context, so the board read is the current one
gameBoard(seen) == board

\* the middleware for move request i: look the game up, set the context
Arrive(i, sessionId, pitIndex) ==
  /\ race.reqs[i].st = "idle"
  /\ race' = [race EXCEPT !.reqs[i] = [st |-> "pending", id |-> sessionId,
                                       pitIndex |-> pitIndex, seen |-> board]]
  /\ UNCHANGED <<board, playerSessions, listeners, streams, moves, last>>

\* the handler for move request i
Handle(i) ==
  /\ race.reqs[i].st = "pending"
  /\ handleMove(gameBoard(race.reqs[i].seen), race.reqs[i].id, race.reqs[i].pitIndex)
  /\ race' = [race EXCEPT !.reqs[i].st = "done"]
  /\ UNCHANGED moves

NextRace ==
  \/ \E i \in Racers, sessionId \in Ids, pitIndex \in PitInputs :
       Arrive(i, sessionId, pitIndex)
  \/ \E i \in Racers : Handle(i)

SpecRace == Init /\ [][NextRace]_vars

(***************************************************************************)
(* Vocabulary of the properties.                                           *)
(***************************************************************************)
Store(player) == IF player = 0 THEN 6 ELSE 13
Row(player) == IF player = 0 THEN 0..5 ELSE 7..12
\* the pit facing pit i across the board: 0-12, 1-11, ..., 5-7
Facing(i) == 12 - i
RowSum(pits, player) == SumRange(pits, player * 7, player * 7 + 5)
RowEmpty(pits, player) == \A i \in Row(player) : pits[i] = 0
Total(pits) == SumRange(pits, 0, 13)
Seated(id) == id = playerSessions[0] \/ id = playerSessions[1]
\* the handler that ran last was a move
MoveRequest(req) == req.op = "move"
\* ... which the engine accepted
Accepted(req) == req.op = "move" /\ req.status = 200
\* ... which the engine rejected
EngineRejected(req) == req.op = "move" /\ req.status = 400

TypeOK ==
  /\ board.turn \in 0..1
  /\ board.winner \in {0, 1, Null}
  /\ \A i \in Slots : board.pits[i] \in 0..48

(***************************************************************************)
(* C1  Seed conservation: in every reachable state the 12 sowing pits and  *)
(* the two stores hold 48 seeds together.                                  *)
(***************************************************************************)
C1_Conservation == Total(board.pits) = 48

(***************************************************************************)
(* C2  Capture exactness: when the last seed of an accepted move lands in  *)
(* a pit of the mover's row that was empty before the deposit, the capture *)
(* empties the landing pit and the pit facing it and adds the facing pit's *)
(* seeds plus one to the mover's store, and changes nothing else; in every *)
(* other case nothing is captured.  Unless the move ends the game, the     *)
(* board holds the pits the capture step left.                             *)
(***************************************************************************)
C2_Captured(req) ==
  LET p == req.player
      l == req.currentPit
      s == req.sown
  IN IF l \in Row(p) /\ s[l] = 1
     THEN [i \in Slots |->
             IF i = l \/ i = Facing(l) THEN 0
             ELSE IF i = Store(p) THEN s[i] + s[Facing(l)] + 1
             ELSE s[i]]
     ELSE s

C2_CaptureExact ==
  [][Accepted(last') =>
       /\ last'.captured = C2_Captured(last')
       /\ ~board'.gameOver => board'.pits = last'.captured]_vars

(***************************************************************************)
(* C3  Turn alternation: after an accepted move that does not end the game *)
(* the turn stays with the mover exactly when the last seed landed in the  *)
(* mover's own store, and passes to the other player otherwise.            *)
(***************************************************************************)
C3_TurnAlternation ==
  [][(Accepted(last') /\ ~board'.gameOver) =>
       /\ board.turn = last'.player
       /\ board'.turn = IF last'.currentPit = Store(last'.player)
                        THEN last'.player ELSE 1 - last'.player]_vars

(***************************************************************************)
(* C4  Termination sweep: an accepted move that leaves one player's row    *)
(* empty ends the game: the other player's store grows by the seeds left   *)
(* in that other player's row, the first player's store keeps its value,   *)
(* the 12 sowing pits are 0 and gameOver is true.                          *)
(***************************************************************************)
C4_TerminationSweep ==
  [][(Accepted(last') /\ (RowEmpty(last'.captured, 0) \/ RowEmpty(last'.captured, 1))) =>
       LET c == last'.captured
           e == IF RowEmpty(c, 0) THEN 0 ELSE 1
           o == 1 - e
       IN /\ board'.gameOver
          /\ \A i \in Row(0) \cup Row(1) : board'.pits[i] = 0
          /\ board'.pits[Store(o)] = c[Store(o)] + RowSum(c, o)
          /\ board'.pits[Store(e)] = c[Store(e)]]_vars

(***************************************************************************)
(* C5  Winner determination: when a move ends the game, winner is the      *)
(* player whose store plus the seeds swept into it is strictly larger, and *)
(* null only when the two totals are equal.                                *)
(***************************************************************************)
C5_Winner ==
  [][(Accepted(last') /\ board'.gameOver) =>
       LET c == last'.captured
           t0 == c[6] + RowSum(c, 0)
           t1 == c[13] + RowSum(c, 1)
       IN board'.winner = IF t0 > t1 THEN 0 ELSE IF t1 > t0 THEN 1 ELSE Null]_vars

(***************************************************************************)
(* C6  No mutation on rejection: a move attempt the engine rejects leaves  *)
(* pits, stores, turn, gameOver and winner as they were.                   *)
(***************************************************************************)
C6_RejectionKeepsBoard ==
  [][EngineRejected(last') => board' = board]_vars

\* a request for a non-empty pit of the opponent's row has been rejected
C6_Witness ==
  /\ EngineRejected(last)
  /\ last.error = "Cannot move from opponents pit."
  /\ board.pits[last.pitIndex] > 0

(***************************************************************************)
(* C7  Rejection precedence: the reason returned for a move attempt is the *)
(* first that applies in the order game over, not the player's turn, pit   *)
(* index no sowing pit, pit of the other row, pit empty; an attempt to     *)
(* which none applies is accepted; this for every requested index.         *)
(***************************************************************************)
C7_Reasons ==
  <<"Game is over.", "Not your turn.", "Invalid pit index.",
    "Cannot move from opponents pit.", "Pit is empty.">>

C7_Applies(b, pitIndex, player) ==
  <<b.gameOver,
    player # b.turn,
    pitIndex \notin Row(0) \cup Row(1),
    pitIndex \notin Row(player),
    pitIndex \in Slots /\ b.pits[pitIndex] = 0>>

C7_First(b, pitIndex, player) ==
  LET applies == C7_Applies(b, pitIndex, player)
      matching == {i \in 1..5 : applies[i]}
  IN IF matching = {} THEN ""
     ELSE C7_Reasons[CHOOSE i \in matching : \A j \in matching : i <= j]

C7_RejectionPrecedence ==
  [][(MoveRequest(last') /\ last'.status # 401) =>
       /\ last'.error = C7_First(board, last'.pitIndex, last'.player)
       /\ last'.status = IF last'.error = "" THEN 200 ELSE 400]_vars

\* a request out of turn for an index below the board was answered
C7_Witness ==
  /\ EngineRejected(last)
  /\ last.error = "Not your turn."
  /\ last.pitIndex < 0

(***************************************************************************)
(* C8  Once gameOver is true no handler sets it back or changes the board. *)
(***************************************************************************)
C8_FrozenAfterGameOver ==
  [][board.gameOver => board' = board]_vars

\* the game is over and a later move attempt has been answered
C8_Witness ==
  /\ board.gameOver
  /\ MoveRequest(last)
  /\ last.error = "Game is over."

(***************************************************************************)
(* C9  Move authorization: a move request changes the board only when the  *)
(* requester holds the seat the move is played as; a requester holding no  *)
(* seat is answered 401 and the board stays as it was.                     *)
(***************************************************************************)
C9_MoveAuthorization ==
  [][MoveRequest(last') =>
       /\ board' # board =>
            /\ last'.player \in 0..1
            /\ last'.player = board.turn
            /\ playerSessions[last'.player] = last'.id
       /\ ~Seated(last'.id) =>
            /\ last'.status = 401
            /\ board' = board]_vars

\* a requester holding no seat asked for a move the engine would accept
C9_Witness ==
  /\ MoveRequest(last)
  /\ last.status = 401
  /\ ~Seated(last.id)
  /\ rejection(board, last.pitIndex, board.turn) = ""

(***************************************************************************)
(* C10  Seat binding is write-once: the creator holds seat 0; a session    *)
(* that opens an event stream while holding no seat gets the first free    *)
(* seat; a seat once bound keeps its session; the two seats never hold the *)
(* same session; a session holding no seat gets no move accepted.          *)
(***************************************************************************)
C10_SeatsWriteOnce ==
  [][/\ playerSessions[0] = "a"
     /\ \A i \in 0..1 :
          playerSessions[i] # NoSession => playerSessions'[i] = playerSessions[i]
     /\ playerSessions'[0] # playerSessions'[1]
     /\ (last'.op = "events" /\ ~Seated(last'.id) /\ playerSessions[1] = NoSession)
          => playerSessions'[1] = last'.id
     /\ (last'.op = "events" /\ ~Seated(last'.id) /\ playerSessions[1] # NoSession)
          => playerSessions' = playerSessions
     /\ Accepted(last') => Seated(last'.id)]_vars

\* both seats are bound and a third session has opened an event stream
C10_Witness ==
  /\ last.op = "events"
  /\ playerSessions[1] # NoSession
  /\ ~Seated(last.id)

\* stream k has its listener in game.listeners
Listening(k) == \E j \in DOMAIN listeners : listeners[j] = k

(***************************************************************************)
(* C11  Broadcast completeness: an accepted move writes exactly one event, *)
(* holding the board the move left (the board the mover is answered), to   *)
(* every stream whose listener is registered at the time of the move; a    *)
(* stream opened later starts without any event, and no other handler      *)
(* writes events.                                                          *)
(***************************************************************************)
C11_BroadcastComplete ==
  [][/\ \A k \in DOMAIN streams :
          IF Accepted(last') /\ Listening(k)
          THEN /\ streams'[k].n = streams[k].n + 1
               /\ streams'[k].data = <<board'>>
          ELSE /\ streams'[k].n = streams[k].n
               /\ streams'[k].data = streams[k].data
     /\ \A k \in DOMAIN streams' \ DOMAIN streams :
          /\ last'.op = "events"
          /\ streams'[k].n = 0
          /\ streams'[k].data = << >>]_vars

\* a move was accepted while two streams listened, the second of them opened
\* after earlier moves, whose events it did not get
C11_Witness ==
  /\ Accepted(last)
  /\ Len(streams) = 2
  /\ Listening(1) /\ Listening(2)
  /\ streams[2].n = 1
  /\ streams[1].n > 1
  /\ streams[1].data = <<board>> /\ streams[2].data = <<board>>

(***************************************************************************)
(* C12  No broadcast on failure: a move request answered 400 (rejected by  *)
(* the engine) or 401 (unauthorized) writes no event to any stream.        *)
(***************************************************************************)
C12_NoBroadcastOnFailure ==
  [][(MoveRequest(last') /\ last'.status # 200) => streams' = streams]_vars

\* a move request failed while two streams listened
C12_Witness ==
  /\ MoveRequest(last)
  /\ last.status \in {400, 401}
  /\ Listening(1) /\ Listening(2)

(***************************************************************************)
(* C13  Atomic move application: when two move requests in flight at once  *)
(* have both been answered, the board is the one that results from         *)
(* applying them one after the other, in one of the two orders, to the     *)
(* board they found; and the event written for an accepted move holds the  *)
(* board as that move left it.                                             *)
(***************************************************************************)
\* request i applied alone to board b
C13_Apply(b, i) ==
  LET player == indexOf(playerSessions, race.reqs[i].id)
  IN IF player = NotFound THEN b
     ELSE makeMove(b, race.reqs[i].pitIndex, player).board

C13_BothDone == \A i \in Racers : race.reqs[i].st = "done"

C13_AtomicMoves ==
  /\ C13_BothDone =>
       \/ board = C13_Apply(C13_Apply(race.base, 1), 2)
       \/ board = C13_Apply(C13_Apply(race.base, 2), 1)
  /\ Accepted(last) =>
       \A k \in DOMAIN streams : Listening(k) => streams[k].data = <<board>>

\* both requests passed the middleware before either was handled, and the
\* one handled last was accepted on the board the other had changed
C13_Witness ==
  /\ C13_BothDone
  /\ \A i \in Racers : race.reqs[i].seen = race.base
  /\ Accepted(last)
  /\ board # makeMove(race.base, last.pitIndex, last.player).board
  /\ Listening(1)

(***************************************************************************)
(* C14  Subscriber retirement: a stream whose listener is registered when  *)
(* the game is over (it was there at the game-ending move, or it was       *)
(* opened afterwards) has its listener removed eventually, its timer       *)
(* firing; and once the game is over no further event is written to any    *)
(* stream, so the event of the game-ending move is the last it gets.       *)
(***************************************************************************)
C14_Retirement ==
  /\ \A k \in 1..MaxSubs : (board.gameOver /\ Listening(k)) ~> ~Listening(k)
  /\ [][board.gameOver =>
          \A k \in DOMAIN streams : streams'[k].n = streams[k].n]_vars

\* the game is over and a stream that got the terminal board has been retired
C14_Witness ==
  /\ board.gameOver
  /\ \E k \in DOMAIN streams :
       /\ ~Listening(k)
       /\ ~streams[k].open
       /\ streams[k].data = <<board>>

(***************************************************************************)
(* C15  Disconnect handling: a stream whose client has disconnected while  *)
(* the game is in progress is no longer in the subscriber set when a later *)
(* move is accepted, and that move writes no event to it; the disconnect   *)
(* itself changes neither the board nor the other streams.                 *)
(***************************************************************************)
C15_DisconnectRemoves ==
  [][/\ Accepted(last') =>
          \A k \in DOMAIN streams :
            streams[k].aborted =>
              /\ ~Listening(k)
              /\ streams'[k].n = streams[k].n
     /\ last'.op = "abort" =>
          /\ board' = board
          /\ \A k \in DOMAIN streams :
               k # last'.pitIndex => streams'[k] = streams[k]]_vars

\* the 12 sowing pits of a 14-slot board, player 0's row first
SowingPits(pits) == [i \in 1..12 |-> IF i <= 6 THEN pits[i - 1] ELSE pits[i]]

(***************************************************************************)
(* C16  Scenario as claimed: from the initial board player 0 sowing pit 2  *)
(* gives sowing pits 4,4,0,5,5,5,4,4,4,4,4,4, the last seed in pit 5,      *)
(* no capture, and the turn passes to player 1.                            *)
(***************************************************************************)
C16_ScenarioClaimed ==
  [][(board = getInitialBoard /\ Accepted(last') /\ last'.pitIndex = 2) =>
       /\ SowingPits(board'.pits) = <<4, 4, 0, 5, 5, 5, 4, 4, 4, 4, 4, 4>>
       /\ last'.currentPit = 5
       /\ last'.captured = last'.sown
       /\ board'.turn = 1]_vars

(***************************************************************************)
(* C16 amended  From the initial board player 0 sowing pit 2 gives sowing  *)
(* pits 4,4,0,5,5,5,4,4,4,4,4,4 and stores 1 and 0: the last of the four   *)
(* seeds lands in player 0's store, nothing is captured, and the turn      *)
(* stays with player 0.                                                    *)
(***************************************************************************)
C16_Scenario ==
  [][(board = getInitialBoard /\ Accepted(last') /\ last'.pitIndex = 2) =>
       /\ SowingPits(board'.pits) = <<4, 4, 0, 5, 5, 5, 4, 4, 4, 4, 4, 4>>
       /\ board'.pits[6] = 1 /\ board'.pits[13] = 0
       /\ last'.currentPit = 6
       /\ last'.captured = last'.sown
       /\ board'.turn = 0
       /\ ~board'.gameOver]_vars

\* player 0 has sown pit 2 of the initial board
C16_Witness ==
  /\ Accepted(last) /\ last.player = 0 /\ last.pitIndex = 2
  /\ SowingPits(board.pits) = <<4, 4, 0, 5, 5, 5, 4, 4, 4, 4, 4, 4>>
  /\ board.pits[6] = 1

(***************************************************************************)
(* C17  Scenario as claimed: from the initial board player 0 sowing pit 5  *)
(* ends with the last seed in player 0's store, store 0 is 1 and the turn  *)
(* stays with player 0.                                                    *)
(***************************************************************************)
C17_ScenarioClaimed ==
  [][(board = getInitialBoard /\ Accepted(last') /\ last'.pitIndex = 5) =>
       /\ last'.currentPit = 6
       /\ board'.pits[6] = 1
       /\ board'.turn = 0]_vars

(***************************************************************************)
(* C17 amended  From the initial board player 0 sowing pit 5 (4 seeds)     *)
(* puts the first seed in player 0's store and the last in slot 9, a pit   *)
(* of player 1's row; store 0 is 1 and the turn passes to player 1.        *)
(***************************************************************************)
C17_Scenario ==
  [][(board = getInitialBoard /\ Accepted(last') /\ last'.pitIndex = 5) =>
       /\ SowingPits(board'.pits) = <<4, 4, 4, 4, 4, 0, 5, 5, 5, 4, 4, 4>>
       /\ board'.pits[6] = 1 /\ board'.pits[13] = 0
       /\ last'.currentPit = 9
       /\ board'.turn = 1
       /\ ~board'.gameOver]_vars

\* player 0 has sown pit 5 of the initial board
C17_Witness ==
  /\ Accepted(last) /\ last.player = 0 /\ last.pitIndex = 5
  /\ SowingPits(board.pits) = <<4, 4, 4, 4, 4, 0, 5, 5, 5, 4, 4, 4>>
  /\ board.pits[6] = 1

\* the place of slot i on player p's lap of 13 slots (the opponent's store is
\* not on it)
LapIndex(i, p) == IF p = 1 /\ i > 6 THEN i - 1 ELSE i
\* how many deposits after leaving pit the walk of player p reaches slot i
\* for the first time; the pit itself is reached by the 13th
LapDistance(i, pit, p) ==
  LET d == (LapIndex(i, p) - LapIndex(pit, p) + 13) % 13
  IN IF d = 0 THEN 13 ELSE d
\* how many of n deposits fall on slot i
Deposits(i, pit, p, n) ==
  Cardinality({d \in 1..n : ((d - 1) % 13) + 1 = LapDistance(i, pit, p)})
\* the board after n seeds of pit have been sown by player p
C18_Sown(pits, pit, p) ==
  LET n == pits[pit]
  IN [i \in Slots |->
        IF i = Store(1 - p) THEN pits[i]
        ELSE IF i = pit THEN Deposits(i, pit, p, n)
        ELSE pits[i] + Deposits(i, pit, p, n)]

(***************************************************************************)
(* C18  Sowing: an accepted move from a pit holding n seeds empties the    *)
(* pit and makes exactly n deposits of one seed into consecutive slots in  *)
(* cyclic order from the slot after the pit; the mover's store is one of   *)
(* the slots, the opponent's store receives nothing and is not a stop,     *)
(* also when the walk laps the board.                                      *)
(***************************************************************************)
C18_Sowing ==
  [][Accepted(last') =>
       LET p == last'.player
           pit == last'.pitIndex
           n == board.pits[pit]
       IN /\ n >= 1
          /\ last'.sown = C18_Sown(board.pits, pit, p)
          /\ last'.sown[Store(1 - p)] = board.pits[Store(1 - p)]
          /\ Total(last'.sown) = Total(board.pits)
          /\ last'.currentPit # Store(1 - p)
          /\ LapDistance(last'.currentPit, pit, p) = ((n - 1) % 13) + 1]_vars

\* a walk that lapped the board: the chosen pit got a seed back
C18_Witness ==
  /\ Accepted(last)
  /\ last.sown[last.pitIndex] >= 1

(***************************************************************************)
(* C19  Store monotonicity: across an accepted move that does not end the  *)
(* game neither store decreases, and the opponent's store is unchanged.    *)
(***************************************************************************)
C19_StoreMonotone ==
  [][(Accepted(last') /\ ~board'.gameOver) =>
       /\ board'.pits[6] >= board.pits[6]
       /\ board'.pits[13] >= board.pits[13]
       /\ board'.pits[Store(1 - last'.player)] =
            board.pits[Store(1 - last'.player)]]_vars

(***************************************************************************)
(* C20  No stuck game: while gameOver is false both rows hold a seed, and  *)
(* the player to move has a pit from which a move is accepted.             *)
(***************************************************************************)
C20_NoStuckGame ==
  ~board.gameOver =>
    /\ ~RowEmpty(board.pits, 0)
    /\ ~RowEmpty(board.pits, 1)
    /\ board.turn \in 0..1
    /\ \E pit \in Row(board.turn) : makeMove(board, pit, board.turn).error = ""

\* after an accepted move the game goes on with a single pit left to the
\* player to move
C20_Witness ==
  /\ Accepted(last)
  /\ ~board.gameOver
  /\ Cardinality({i \in Row(board.turn) : board.pits[i] > 0}) = 1

====
